---- MODULE Spec2Model ----
(***************************************************************************)
(* A model of the request handlers of the MCP database server             *)
(* (app/server.py): the startup of the process-wide NL-to-SQL converter,   *)
(* and the handlers list_tables, describe_table, execute_nl_query and      *)
(* get_table_sample, each a sequence of calls to its collaborators (the    *)
(* DatabaseManager and the NLToSQLConverter) separated by awaits.          *)
(*                                                                         *)
(* SQL text is a sequence of lexical tokens; a caller-supplied table name  *)
(* is a string whose tokens Tokens gives, so that formatting it into a     *)
(* statement embeds whatever the caller wrote.                             *)
(***************************************************************************)
EXTENDS Integers, Sequences, FiniteSets, TLC

\* ---------------------------------------------------------------- bounds
NumRequests == 2
MaxSchemaChanges == 2
MaxLimit == 10000
MaxRows == 60

\* ------------------------------------------------------ program constants
HardCap == 50
DefaultQueryLimit == 50
DefaultSampleLimit == 5
StatusOk == 200
StatusError == 500
StatusUnavailable == 503

Requests == 1..NumRequests

Min(a, b) == IF a <= b THEN a ELSE b

\* ----------------------------------------------------------- the database
Tables == {"orders", "users"}
TableOrder == <<"orders", "users">>

ColId == [column_name |-> "id", data_type |-> "integer", is_nullable |-> FALSE]
ColTotal == [column_name |-> "total", data_type |-> "numeric", is_nullable |-> TRUE]
ColumnLists == {<<ColId>>, <<ColId, ColTotal>>}

\* A schema state: the existing tables, each with its columns.
Schemas == UNION {[S -> ColumnLists] : S \in SUBSET Tables}

InitialSchema == [t \in Tables |-> <<ColId>>]

\* ------------------------------------------------------- request inputs
TableNames == {"users", "ghost", "users; DROP TABLE users"}
NLQueries == {"show me all orders", "show me stuff", "delete all users", ""}
QueryLimits == {1, DefaultQueryLimit, HardCap + 1, MaxLimit}
SampleLimits == {1, DefaultSampleLimit, HardCap + 1, MaxLimit}
RowCounts == {1, MaxRows}

\* The lexical tokens of a caller-supplied path parameter.
Tokens(name) ==
    IF name = "users; DROP TABLE users"
    THEN <<"users", ";", "DROP", "TABLE", "users">>
    ELSE <<name>>

\* --------------------------------------------- DatabaseManager (db.py)
\* list_tables: the user-visible tables in a stable order, or a failure.
TableInfoOf(s, t) == [table_name |-> t, column_count |-> Len(s[t])]

ListedTables(s) ==
    LET present == SelectSeq(TableOrder, LAMBDA t : t \in DOMAIN s)
    IN  [i \in 1..Len(present) |-> TableInfoOf(s, present[i])]

DbListTables(s) ==
    { [ok |-> TRUE, error |-> "", value |-> ListedTables(s)],
      [ok |-> FALSE, error |-> "IntrospectionError", value |-> <<>>] }

\* describe_table: the columns in ordinal order; TableNotFoundError for a
\* name that is no table; IntrospectionError for a connectivity failure.
DbDescribeTable(s, name) ==
    { IF name \in DOMAIN s
      THEN [ok |-> TRUE, error |-> "", value |-> s[name]]
      ELSE [ok |-> FALSE, error |-> "TableNotFoundError", value |-> <<>>],
      [ok |-> FALSE, error |-> "IntrospectionError", value |-> <<>>] }

\* The number of top-level statements of a SQL text: the tokens that start
\* a statement (the first one, and each one that follows a ';').
StatementCount(sql) ==
    Cardinality({i \in 1..Len(sql) :
                   /\ sql[i] # ";"
                   /\ (i = 1 \/ sql[i - 1] = ";")})

ForbiddenVerbs ==
    {"INSERT", "UPDATE", "DELETE", "DROP", "ALTER", "TRUNCATE", "CREATE"}

IsReadOnly(sql) ==
    /\ Len(sql) > 0
    /\ sql[1] = "SELECT"
    /\ \A i \in 1..Len(sql) : sql[i] \notin ForbiddenVerbs

\* Numerals as they are written into, and read back from, SQL text.
NumeralDomain == (0..HardCap) \cup QueryLimits \cup SampleLimits
Numerals == [n \in NumeralDomain |-> ToString(n)]
IsNumeral(tok) == \E n \in NumeralDomain : Numerals[n] = tok
ParseInt(tok) == CHOOSE n \in NumeralDomain : Numerals[n] = tok

\* The position of the LIMIT keyword of a statement's limit clause, 0 if none.
LimitIndex(sql) ==
    LET at == {i \in 1..(Len(sql) - 1) : sql[i] = "LIMIT" /\ IsNumeral(sql[i + 1])}
    IN  IF at = {} THEN 0 ELSE CHOOSE i \in at : \A j \in at : i <= j

EnforcedLimit_uncapped(limit) == limit

EnforcedLimit(limit) == Min(limit, HardCap)

\* The statement the executor runs: a limit clause appended when there is
\* none, a larger limit clamped down to min(requested limit, 50).
Rewritten(sql, limit) ==
    LET k == LimitIndex(sql)
        cap == EnforcedLimit(limit)
    IN  IF k = 0 THEN sql \o <<"LIMIT", Numerals[cap]>>
        ELSE IF ParseInt(sql[k + 1]) > cap
             THEN [sql EXCEPT ![k + 1] = Numerals[cap]]
             ELSE sql

StatementLimit(sql) == ParseInt(sql[LimitIndex(sql) + 1])

\* The table a single SELECT reads: the token after FROM.
FromTable(sql) ==
    LET at == {i \in 1..(Len(sql) - 1) : sql[i] = "FROM"}
    IN  IF at = {} THEN "" ELSE sql[(CHOOSE i \in at : \A j \in at : i <= j) + 1]

Rows(n) == [i \in 1..n |-> [id |-> i]]

Rejected(error) ==
    [ok |-> FALSE, error |-> error, executed |-> <<>>, value |-> <<>>]

\* execute_safe_query: validation (one statement, read-only), the limit
\* rewrite, then the database call, which fails or returns at most the
\* statement's limit of the rows there are.
ExecuteSafeQuery(s, sql, limit) ==
    IF StatementCount(sql) # 1 THEN {Rejected("QueryRejectedError")}
    ELSE IF ~IsReadOnly(sql) THEN {Rejected("ForbiddenOperationError")}
    ELSE LET run == Rewritten(sql, limit)
             failed == [ok |-> FALSE, error |-> "ExecutionError",
                        executed |-> run, value |-> <<>>]
         IN  IF FromTable(run) \notin DOMAIN s THEN {failed}
             ELSE {failed} \cup
                  { [ok |-> TRUE, error |-> "", executed |-> run,
                     value |-> Rows(Min(available, StatementLimit(run)))] :
                    available \in RowCounts }

\* ------------------------------------------ NLToSQLConverter (nl_to_sql.py)
Mentions(nl_query) == IF nl_query = "show me all orders" THEN {"orders"} ELSE {}
MutationIntent(nl_query) == nl_query = "delete all users"

SnapshotOrder(table_schemas) ==
    SelectSeq(TableOrder, LAMBDA t : t \in DOMAIN table_schemas)

Declined(error) == [ok |-> FALSE, error |-> error, value |-> <<>>]

\* convert_to_sql: one read-only statement over a table of the snapshot.
ConvertToSQL(nl_query, table_schemas) ==
    IF nl_query = "" THEN Declined("SynthesisError")
    ELSE IF DOMAIN table_schemas = {} THEN Declined("EmptySchemaError")
    ELSE IF MutationIntent(nl_query) THEN Declined("UnsupportedIntentError")
    ELSE LET named == Mentions(nl_query) \cap DOMAIN table_schemas
         IN  IF named # {}
             THEN [ok |-> TRUE, error |-> "",
                   value |-> <<"SELECT", "*", "FROM", CHOOSE t \in named : TRUE>>]
             ELSE [ok |-> TRUE, error |-> "",
                   value |-> <<"SELECT", "*", "FROM", SnapshotOrder(table_schemas)[1],
                               "LIMIT", Numerals[DefaultQueryLimit]>>]

VARIABLES started, nl_converter, schema, changes, history, req

vars == <<started, nl_converter, schema, changes, history, req>>

\* ------------------------------------------------------------- requests
NoResponse == [status |-> 0]

Idle == [kind |-> "idle", pc |-> "idle", table_name |-> "", nl_query |-> "",
         limit |-> 0, tables |-> <<>>, idx |-> 0, table_schemas |-> <<>>,
         sql_query |-> <<>>, response |-> NoResponse, calls |-> <<>>, h0 |-> 0]

HTTPException(status_code, prefix, error) ==
    [status |-> status_code, detail |-> <<prefix, error>>]

Init ==
    /\ started = FALSE
    /\ nl_converter = "None"
    /\ schema = InitialSchema
    /\ changes = 0
    /\ history = <<InitialSchema>>
    /\ req = [r \in Requests |-> Idle]

\* lifespan: the converter is constructed once, at startup; a failing
\* constructor leaves it None and the server starts all the same.
Lifespan ==
    /\ ~started
    /\ started' = TRUE
    /\ \E constructed \in BOOLEAN :
         nl_converter' = IF constructed THEN "NLToSQLConverter" ELSE "None"
    /\ UNCHANGED <<schema, changes, history, req>>

\* Another process adds, drops or alters a table.
SchemaChange ==
    /\ changes < MaxSchemaChanges
    /\ \E s \in Schemas :
         /\ s # schema
         /\ Cardinality({t \in Tables :
                           \/ (t \in DOMAIN s) # (t \in DOMAIN schema)
                           \/ (t \in DOMAIN s /\ t \in DOMAIN schema /\ s[t] # schema[t])}) = 1
         /\ schema' = s
         /\ history' = Append(history, s)
    /\ changes' = changes + 1
    /\ UNCHANGED <<started, nl_converter, req>>

\* The transport hands a request to its handler.
Arrived(kind, table_name, nl_query, limit) ==
    [Idle EXCEPT !.kind = kind, !.pc = "start", !.table_name = table_name,
                 !.nl_query = nl_query, !.limit = limit]

\* Every request of the input sets.
Arrivals ==
    {Arrived("list", "", "", 0)}
    \cup {Arrived("describe", n, "", 0) : n \in TableNames}
    \cup {Arrived("query", "", q, l) : q \in NLQueries, l \in QueryLimits}
    \cup {Arrived("sample", n, "", l) : n \in TableNames, l \in SampleLimits}

\* The requests that leave the limit at its default.
DefaultArrivals ==
    {a \in Arrivals : /\ a.kind = "query" => a.limit = DefaultQueryLimit
                      /\ a.kind = "sample" => a.limit = DefaultSampleLimit}

Receive(r, A) ==
    /\ started
    /\ req[r].pc = "idle"
    /\ \E a \in A : req' = [req EXCEPT ![r] = a]
    /\ UNCHANGED <<started, nl_converter, schema, changes, history>>

Called(r, entry) == Append(req[r].calls, entry)

\* GET /mcp/list_tables
ListTablesResponse(tables) ==
    [status |-> StatusOk,
     body |-> [i \in 1..Len(tables) |->
                 [table_name |-> tables[i].table_name,
                  column_count |-> tables[i].column_count]]]

ListTables(r) ==
    /\ req[r].kind = "list" /\ req[r].pc = "start"
    /\ \E out \in DbListTables(schema) :
         req' = [req EXCEPT
                   ![r].pc = "done",
                   ![r].calls = Called(r, [op |-> "list_tables", ok |-> out.ok,
                                           error |-> out.error, value |-> out.value]),
                   ![r].response =
                       IF out.ok THEN ListTablesResponse(out.value)
                       ELSE HTTPException(StatusError, "Failed to list tables: ", out.error)]
    /\ UNCHANGED <<started, nl_converter, schema, changes, history>>

\* GET /mcp/describe/{table_name}
DescribeTableFailure(error) ==
    HTTPException(StatusError, "Failed to describe table: ", error)

DescribeTable(r) ==
    /\ req[r].kind = "describe" /\ req[r].pc = "start"
    /\ \E out \in DbDescribeTable(schema, req[r].table_name) :
         req' = [req EXCEPT
                   ![r].pc = "done",
                   ![r].calls = Called(r, [op |-> "describe_table",
                                           name |-> req[r].table_name, ok |-> out.ok,
                                           error |-> out.error, value |-> out.value]),
                   ![r].response =
                       IF out.ok
                       THEN [status |-> StatusOk, table_name |-> req[r].table_name,
                             columns |-> out.value]
                       ELSE DescribeTableFailure(out.error)]
    /\ UNCHANGED <<started, nl_converter, schema, changes, history>>

\* POST /mcp/query
QueryFailure(error) ==
    HTTPException(StatusError, "Failed to execute query: ", error)

Available_unchecked(converter) == TRUE

\* if not nl_converter
Available(converter) == converter # "None"

ConverterAfterRequest_cleared(r) == "None"

\* global nl_converter: the handler reads the global and never assigns it.
ConverterAfterRequest(r) == nl_converter

ExecuteNlQueryGuard(r) ==
    /\ req[r].kind = "query" /\ req[r].pc = "start"
    /\ IF ~Available(nl_converter)
       THEN req' = [req EXCEPT
                      ![r].pc = "done",
                      ![r].response =
                          [status |-> StatusUnavailable,
                           detail |-> <<"NL to SQL converter not available">>]]
       ELSE req' = [req EXCEPT ![r].pc = "list_tables", ![r].h0 = Len(history)]
    /\ nl_converter' = ConverterAfterRequest(r)
    /\ UNCHANGED <<started, schema, changes, history>>

ExecuteNlQueryList(r) ==
    /\ req[r].kind = "query" /\ req[r].pc = "list_tables"
    /\ \E out \in DbListTables(schema) :
         req' = [req EXCEPT
                   ![r].calls = Called(r, [op |-> "list_tables", ok |-> out.ok,
                                           error |-> out.error, value |-> out.value]),
                   ![r].pc = IF out.ok THEN "describe_table" ELSE "done",
                   ![r].tables = out.value,
                   ![r].idx = IF out.ok THEN 1 ELSE 0,
                   ![r].response = IF out.ok THEN NoResponse ELSE QueryFailure(out.error)]
    /\ UNCHANGED <<started, nl_converter, schema, changes, history>>

\* table_schemas[table["table_name"]] = schema
Stored(table_schemas, name, columns) ==
    [t \in DOMAIN table_schemas \cup {name} |->
        IF t = name THEN columns ELSE table_schemas[t]]

LoopDone_early(r) == TRUE

\* for table in tables: the loop is over when every listed table is done.
LoopDone(r) == req[r].idx > Len(req[r].tables)

AfterDescribe_swallowed(ok) == "describe_table"

\* An exception leaves the try block for the handler's except clause.
AfterDescribe(ok) == IF ok THEN "describe_table" ELSE "done"

ExecuteNlQueryDescribe(r) ==
    /\ req[r].kind = "query" /\ req[r].pc = "describe_table"
    /\ req[r].idx <= Len(req[r].tables)
    /\ LET name == req[r].tables[req[r].idx].table_name
       IN  \E out \in DbDescribeTable(schema, name) :
             req' = [req EXCEPT
                       ![r].calls = Called(r, [op |-> "describe_table", name |-> name,
                                               ok |-> out.ok, error |-> out.error,
                                               value |-> out.value]),
                       ![r].pc = AfterDescribe(out.ok),
                       ![r].idx = IF out.ok THEN @ + 1 ELSE @,
                       ![r].table_schemas =
                           IF out.ok THEN Stored(@, name, out.value) ELSE @,
                       ![r].response =
                           IF out.ok THEN NoResponse ELSE QueryFailure(out.error)]
    /\ UNCHANGED <<started, nl_converter, schema, changes, history>>

ExecuteNlQueryConvert(r) ==
    /\ req[r].kind = "query" /\ req[r].pc = "describe_table"
    /\ LoopDone(r)
    /\ LET out == ConvertToSQL(req[r].nl_query, req[r].table_schemas)
       IN  req' = [req EXCEPT
                     ![r].calls = Called(r, [op |-> "convert_to_sql",
                                             nl_query |-> req[r].nl_query,
                                             table_schemas |-> req[r].table_schemas,
                                             at |-> Len(history),
                                             ok |-> out.ok, error |-> out.error,
                                             value |-> out.value]),
                     ![r].pc = IF out.ok THEN "execute_safe_query" ELSE "done",
                     ![r].sql_query = out.value,
                     ![r].response =
                         IF out.ok THEN NoResponse ELSE QueryFailure(out.error)]
    /\ UNCHANGED <<started, nl_converter, schema, changes, history>>

QueryResponse(sql_query, results) ==
    [status |-> StatusOk, sql_query |-> sql_query, results |-> results,
     row_count |-> Len(results)]

ExecuteNlQueryExecute(r) ==
    /\ req[r].kind = "query" /\ req[r].pc = "execute_safe_query"
    /\ \E out \in ExecuteSafeQuery(schema, req[r].sql_query, req[r].limit) :
         req' = [req EXCEPT
                   ![r].calls = Called(r, [op |-> "execute_safe_query",
                                           sql |-> req[r].sql_query,
                                           limit |-> req[r].limit, ok |-> out.ok,
                                           error |-> out.error,
                                           executed |-> out.executed,
                                           value |-> out.value]),
                   ![r].pc = "done",
                   ![r].response =
                       IF out.ok THEN QueryResponse(req[r].sql_query, out.value)
                       ELSE QueryFailure(out.error)]
    /\ UNCHANGED <<started, nl_converter, schema, changes, history>>

\* GET /mcp/tables/{table_name}/sample
SampleQuery(table_name, limit) ==
    <<"SELECT", "*", "FROM">> \o Tokens(table_name)
        \o <<"LIMIT", Numerals[Min(limit, HardCap)]>>

GetTableSample(r) ==
    /\ req[r].kind = "sample" /\ req[r].pc = "start"
    /\ LET query == SampleQuery(req[r].table_name, req[r].limit)
           limit == Min(req[r].limit, HardCap)
       IN  \E out \in ExecuteSafeQuery(schema, query, limit) :
             req' = [req EXCEPT
                       ![r].calls = Called(r, [op |-> "execute_safe_query",
                                               sql |-> query, limit |-> limit,
                                               ok |-> out.ok, error |-> out.error,
                                               executed |-> out.executed,
                                               value |-> out.value]),
                       ![r].pc = "done",
                       ![r].sql_query = query,
                       ![r].response =
                           IF out.ok
                           THEN [status |-> StatusOk, table_name |-> req[r].table_name,
                                 sample_data |-> out.value, row_count |-> Len(out.value)]
                           ELSE HTTPException(StatusError, "Failed to get table sample: ",
                                              out.error)]
    /\ UNCHANGED <<started, nl_converter, schema, changes, history>>

\* The server's steps for the request slots R, whose requests are among A.
Server(R, A) ==
    \/ Lifespan
    \/ \E r \in R : Receive(r, A)
    \/ \E r \in R : ListTables(r)
    \/ \E r \in R : DescribeTable(r)
    \/ \E r \in R : ExecuteNlQueryGuard(r)
    \/ \E r \in R : ExecuteNlQueryList(r)
    \/ \E r \in R : ExecuteNlQueryDescribe(r)
    \/ \E r \in R : ExecuteNlQueryConvert(r)
    \/ \E r \in R : ExecuteNlQueryExecute(r)
    \/ \E r \in R : GetTableSample(r)

\* One request, any input, while other processes change the schema.
Next == SchemaChange \/ Server({1}, Arrivals)

Spec == Init /\ [][Next]_vars

\* Concurrent requests over a schema that nobody changes.
NextConcurrent == Server(Requests, DefaultArrivals)

SpecConcurrent == Init /\ [][NextConcurrent]_vars

\* ------------------------------------------------------------ properties
Done(r) == req[r].pc = "done"

Succeeded(r) == Done(r) /\ req[r].response.status = StatusOk

CallsOf(r, op) == {i \in DOMAIN req[r].calls : req[r].calls[i].op = op}

FailedCalls(r) == {i \in DOMAIN req[r].calls : ~req[r].calls[i].ok}

\* C1: a sampleTable request whose table_name is no listed table is rejected
\* with InvalidIdentifierError, builds no SQL text from the name and never
\* calls the executor.
C1_SampleIdentifierValidated ==
    \A r \in Requests :
        (req[r].kind = "sample" /\ req[r].table_name \notin Tables) =>
            /\ CallsOf(r, "execute_safe_query") = {}
            /\ req[r].sql_query = <<>>
            /\ Done(r) => /\ req[r].response.status # StatusOk
                          /\ req[r].response.detail[2] = "InvalidIdentifierError"

\* C2: a successful answerNLQuery or sampleTable response to a request with
\* a limit in [1, MaxLimit] has a row_count of at most 50.
C2_RowLimitCap ==
    \A r \in Requests :
        (/\ req[r].kind \in {"query", "sample"}
         /\ req[r].limit \in 1..MaxLimit
         /\ Succeeded(r)) =>
            req[r].response.row_count <= HardCap

C2_Witness ==
    \E r \in Requests :
        /\ req[r].kind = "query"
        /\ req[r].limit > HardCap
        /\ Succeeded(r)
        /\ req[r].response.row_count = HardCap
        /\ LimitIndex(req[r].sql_query) = 0

\* C3: every SQL text handed to the executor holds exactly one top-level
\* statement.
C3_SingleStatementToExecutor ==
    \A r \in Requests :
        \A i \in CallsOf(r, "execute_safe_query") :
            StatementCount(req[r].calls[i].sql) = 1

\* C4: the sql_query of a successful answerNLQuery response is the statement
\* the executor ran, after its rewriting of the limit clause.
C4_SqlQueryIsExecuted ==
    \A r \in Requests :
        (req[r].kind = "query" /\ Succeeded(r)) =>
            \A i \in CallsOf(r, "execute_safe_query") :
                req[r].response.sql_query = req[r].calls[i].executed

\* C5: describeTable of a name that is no table ends in a response of another
\* kind than the response to a connectivity or permission failure.
C5_NotFoundDistinct ==
    \A r \in Requests :
        (/\ req[r].kind = "describe"
         /\ Done(r)
         /\ \E i \in FailedCalls(r) : req[r].calls[i].error = "TableNotFoundError") =>
            req[r].response.status # DescribeTableFailure("IntrospectionError").status

\* C6: in an answerNLQuery request the synthesizer is called only after
\* list_tables and one describe_table per listed table have returned, with a
\* snapshot whose keys are the listed names; the executor is called only
\* after the synthesizer has returned, with the SQL text it returned.
ListedNames(listed) == {listed[j].table_name : j \in DOMAIN listed}

C6_StepOrder ==
    \A r \in Requests :
        req[r].kind = "query" =>
            LET c == req[r].calls IN
            /\ \A i \in CallsOf(r, "convert_to_sql") :
                 /\ i >= 2
                 /\ c[1].op = "list_tables" /\ c[1].ok
                 /\ i = Len(c[1].value) + 2
                 /\ \A j \in 2..(i - 1) :
                      /\ c[j].op = "describe_table" /\ c[j].ok
                      /\ c[j].name = c[1].value[j - 1].table_name
                 /\ DOMAIN c[i].table_schemas = ListedNames(c[1].value)
            /\ \A i \in CallsOf(r, "execute_safe_query") :
                 /\ i >= 2
                 /\ c[i - 1].op = "convert_to_sql" /\ c[i - 1].ok
                 /\ c[i].sql = c[i - 1].value

C6_Witness ==
    \E r \in Requests :
        /\ req[r].kind = "query"
        /\ Succeeded(r)
        /\ Len(req[r].calls) = 5
        /\ DOMAIN req[r].calls[4].table_schemas = Tables

\* C7: a step of one request leaves every other request's data and, once the
\* server has started, the process-wide nl_converter as they were; and two
\* requests with the same input whose collaborator calls returned the same
\* values get the same response.
SameInput(r, q) ==
    /\ req[r].kind = req[q].kind
    /\ req[r].table_name = req[q].table_name
    /\ req[r].nl_query = req[q].nl_query
    /\ req[r].limit = req[q].limit

C7_StepIsolated ==
    /\ started => nl_converter' = nl_converter
    /\ \A r, q \in Requests : (r # q /\ req'[r] # req[r]) => req'[q] = req[q]

C7_ResponseOwn ==
    \A r, q \in Requests :
        (Done(r) /\ Done(q) /\ SameInput(r, q) /\ req[r].calls = req[q].calls) =>
            req[r].response = req[q].response

C7_NoSharedState == [][C7_StepIsolated]_vars /\ []C7_ResponseOwn

C7_Witness ==
    \E r, q \in Requests :
        /\ req[r].kind = "query" /\ req[r].pc = "describe_table"
        /\ req[r].idx = 2
        /\ req[q].kind = "query" /\ req[q].pc = "execute_safe_query"
        /\ req[r].nl_query # req[q].nl_query

\* C8: a failed collaborator call is the last call of its request, ends the
\* request at once with an error response, and the executor is called at
\* most once per request.
C8_NoRetry ==
    \A r \in Requests :
        /\ \A i \in FailedCalls(r) :
             /\ i = Len(req[r].calls)
             /\ Done(r)
             /\ req[r].response.status = StatusError
        /\ Cardinality(CallsOf(r, "execute_safe_query")) <= 1

C8_Witness ==
    \E r \in Requests :
        /\ req[r].kind = "query"
        /\ Done(r)
        /\ Len(req[r].calls) = 3
        /\ req[r].calls[2].ok
        /\ req[r].calls[3].op = "describe_table" /\ ~req[r].calls[3].ok

\* C9: the snapshot passed to the synthesizer is the schema as it was at one
\* moment between the request's list_tables call and the synthesizer call.
C9_SnapshotAtOnePoint ==
    \A r \in Requests :
        \A i \in CallsOf(r, "convert_to_sql") :
            \E k \in req[r].h0..req[r].calls[i].at :
                req[r].calls[i].table_schemas = history[k]

\* C10: with the converter unset the server runs, and answers every
\* answerNLQuery with 503 without any collaborator call; an answerNLQuery
\* with the converter set is never answered with 503; and listTables,
\* describeTable and sampleTable make their one collaborator call and succeed
\* exactly when it does, whatever the converter is.
C10_ConverterUnavailable ==
    \A r \in Requests :
        /\ (req[r].kind = "query" /\ req[r].pc \notin {"idle", "start"}) =>
             IF nl_converter = "None"
             THEN /\ Done(r)
                  /\ req[r].response.status = StatusUnavailable
                  /\ req[r].calls = <<>>
             ELSE req[r].response.status # StatusUnavailable
        /\ (req[r].kind \in {"list", "describe", "sample"} /\ Done(r)) =>
             /\ req[r].response.status # StatusUnavailable
             /\ Len(req[r].calls) = 1
             /\ req[r].response.status = StatusOk <=> req[r].calls[1].ok

C10_Witness ==
    \E r \in Requests :
        /\ started /\ nl_converter = "None"
        /\ req[r].kind = "query" /\ Done(r)
        /\ req[r].response.status = StatusUnavailable
====
